---- MODULE Spec2Model ----
(***************************************************************************)
(* Model of src/game.js: a generalized rock-paper-scissors game in which   *)
(* the computer shows an HMAC of its move before the player answers.       *)
(*                                                                         *)
(* The state is the command line (argv), the fields of the single Game     *)
(* object (moves, hmacKey, computerMove), the position of the script (pc), *)
(* and what the player has seen: the lines the last callback wrote to the  *)
(* console (out), the HMAC most recently printed by showMenu (shown) and   *)
(* the (key, move) pairs revealed so far (disclosed), and the line the     *)
(* player typed last (answer).                                             *)
(*                                                                         *)
(* Abstractions: a key is a number of 1..NumKeys instead of 32 random      *)
(* bytes in hex; the HMAC-SHA256 digest of (key, move) is the pair         *)
(* <<key, move>> (a collision-free keyed hash); a console line is a pair   *)
(* <<text, value>>; the cells of the help table are not padded.  Numbers   *)
(* produced by Number(answer) and by the unfloored (n - 1) / 2 of          *)
(* determineResult are kept as twice their value, so that halves stay      *)
(* integers.                                                               *)
(***************************************************************************)
EXTENDS Integers, Sequences, FiniteSets

VARIABLES argv, pc, moves, hmacKey, computerMove, out, shown, disclosed, answer

vars == <<argv, pc, moves, hmacKey, computerMove, out, shown, disclosed, answer>>

\* ---------------------------------------------------------------- bounds
MaxMoves == 7
NumKeys == 2

\* Names the command line is drawn from.
Pool == <<"rock", "spock", "paper", "lizard", "scissors", "fire", "water", "air">>

\* Answers typed as menu numbers.
Digits == <<"1", "2", "3", "4", "5", "6", "7", "8", "9">>

Min(a, b) == IF a < b THEN a ELSE b

MaxLen == Min(MaxMoves, Len(Pool))

\* Command lines: k distinct names, or k names whose last repeats the first.
ArgvSet ==
  {SubSeq(Pool, 1, k) : k \in 0..MaxLen}
  \cup {<<"rock", "paper", "scissors">>}
  \cup {[i \in 1..k |-> IF i = k THEN Pool[1] ELSE Pool[i]] : k \in 2..MaxLen}

Keys == 1..NumKeys

\* What the player may type at the prompt.
Answers ==
  {"0", "?", "abc", "", "0.5", "1.5"}
  \cup {Digits[i] : i \in 1..Min(MaxLen + 1, Len(Digits))}

\* The JavaScript value undefined (no move is named like this).
undefined == "<undefined>"

NoKey == 0

\* Nothing has been typed yet.
NoAnswer == "<none>"

\* ------------------------------------------------------- pure functions
\* Array.prototype.indexOf: 0-based index of the first occurrence, or -1.
indexOf(arr, x) ==
  IF \E i \in 1..Len(arr) : arr[i] = x
  THEN (CHOOSE i \in 1..Len(arr) : arr[i] = x /\ \A j \in 1..(i - 1) : arr[j] # x) - 1
  ELSE -1

\* Array.prototype.includes.
includes(arr, x) == \E i \in 1..Len(arr) : arr[i] = x

\* The JavaScript % operator on integers: the sign follows the dividend.
JsRem(a, n) == IF a >= 0 THEN a % n ELSE -((-a) % n)

\* crypto.randomBytes(32).toString('hex'): any key of the key space.
generateKey == Keys

\* HMAC-SHA256 of move under key, as a collision-free digest.
generateHmac(key, move) == <<key, move>>

\* determineWinner without the wrap-around half of the window test.
determineWinner_nowrap(mv, userMove, computerMv) ==
  LET half == (Len(mv) - 1) \div 2
      index == indexOf(mv, userMove)
      moveIndex == indexOf(mv, computerMv)
  IN  IF userMove = computerMv THEN "Draw"
      ELSE IF moveIndex >= index + 1 /\ moveIndex <= index + half
           THEN "Computer wins!"
           ELSE "You win!"

\* determineWinner with a window that stops one position early.
determineWinner_short(mv, userMove, computerMv) ==
  LET half == (Len(mv) - 1) \div 2
      index == indexOf(mv, userMove)
      moveIndex == indexOf(mv, computerMv)
  IN  IF userMove = computerMv THEN "Draw"
      ELSE IF \/ (moveIndex >= index + 1 /\ moveIndex < index + half)
              \/ (index + half >= Len(mv) /\ moveIndex <= JsRem(index + half, Len(mv)))
           THEN "Computer wins!"
           ELSE "You win!"

\* The first half of determineWinner's condition: moveIndex lies in the part
\* of the window that does not pass the end of the list.
NonWrapTest(n, half, index, moveIndex) ==
  moveIndex >= index + 1 /\ moveIndex <= index + half

\* The wrap-around test, taking the wrap one index late.
WrapTest_strict(n, half, index, moveIndex) ==
  index + half > n /\ moveIndex <= JsRem(index + half, n)

\* The second half: the window passes the end of the list and moveIndex lies
\* in the part that starts again at 0.
WrapTest(n, half, index, moveIndex) ==
  index + half >= n /\ moveIndex <= JsRem(index + half, n)

\* determineWinner looking up the two moves in each other's place.
determineWinner_swapped(mv, userMove, computerMv) ==
  LET half == (Len(mv) - 1) \div 2
      index == indexOf(mv, computerMv)
      moveIndex == indexOf(mv, userMove)
  IN  IF userMove = computerMv THEN "Draw"
      ELSE IF \/ NonWrapTest(Len(mv), half, index, moveIndex)
              \/ WrapTest(Len(mv), half, index, moveIndex)
           THEN "Computer wins!"
           ELSE "You win!"

\* determineWinner without the test for equal moves.
determineWinner_nodraw(mv, userMove, computerMv) ==
  LET half == (Len(mv) - 1) \div 2
      index == indexOf(mv, userMove)
      moveIndex == indexOf(mv, computerMv)
  IN  IF \/ NonWrapTest(Len(mv), half, index, moveIndex)
         \/ WrapTest(Len(mv), half, index, moveIndex)
      THEN "Computer wins!"
      ELSE "You win!"

determineWinner(mv, userMove, computerMv) ==
  LET half == (Len(mv) - 1) \div 2
      index == indexOf(mv, userMove)
      moveIndex == indexOf(mv, computerMv)
  IN  IF userMove = computerMv THEN "Draw"
      ELSE IF \/ NonWrapTest(Len(mv), half, index, moveIndex)
              \/ WrapTest(Len(mv), half, index, moveIndex)
           THEN "Computer wins!"
           ELSE "You win!"

\* determineResult whose wrap-around test starts one index late.
determineResult_strict(mv, move1, move2) ==
  LET half2 == Len(mv) - 1
      index == indexOf(mv, move1)
      moveIndex == indexOf(mv, move2)
  IN  IF move1 = move2 THEN "Draw"
      ELSE IF \/ (moveIndex >= index + 1 /\ 2 * moveIndex <= 2 * index + half2)
              \/ (2 * index + half2 > 2 * Len(mv)
                  /\ 2 * moveIndex <= JsRem(2 * index + half2, 2 * Len(mv)))
           THEN "Lose"
           ELSE "Win"

\* half = (n - 1) / 2 is not floored here: half2 is twice its value.
determineResult(mv, move1, move2) ==
  LET half2 == Len(mv) - 1
      index == indexOf(mv, move1)
      moveIndex == indexOf(mv, move2)
  IN  IF move1 = move2 THEN "Draw"
      ELSE IF \/ (moveIndex >= index + 1 /\ 2 * moveIndex <= 2 * index + half2)
              \/ (2 * index + half2 >= 2 * Len(mv)
                  /\ 2 * moveIndex <= JsRem(2 * index + half2, 2 * Len(mv)))
           THEN "Lose"
           ELSE "Win"

generateHelpTable(mv) ==
  <<(<<"PC Moves">> \o mv)>>
  \o [i \in 1..Len(mv) |->
        <<mv[i]>> \o [j \in 1..Len(mv) |-> determineResult(mv, mv[i], mv[j])]]

\* One console line per row of the table.
printTable(table) == [i \in 1..Len(table) |-> <<"|", table[i]>>]

\* isMoveValid accepting whatever it is given.
isMoveValid_any(mv, move) == TRUE

isMoveValid(mv, move) == includes(mv, move)

\* The lines showMenu writes for a Game with these fields.
showMenu(mv, key, cm) ==
  <<(<<"HMAC", generateHmac(key, cm)>>), (<<"Available moves:", "">>)>>
  \o [i \in 1..Len(mv) |-> <<"item", <<i, mv[i]>>>>]
  \o <<(<<"0 - exit", "">>), (<<"? - help", "">>)>>

printHelpLines(mv) ==
  << <<"Game Rules:", "">>,
     <<"Each move beats the half of the moves coming after it in a circular manner.", "">>,
     <<"To play the game, enter the number corresponding to your move.", "">>,
     <<"Enter 0 to exit the game.", "">>,
     <<"Enter ? to display the available moves and rules.", "">>,
     <<"Help table:", "">> >>
  \o printTable(generateHelpTable(mv))

\* The check of the command line without the test for duplicates.
InvalidMoves_nodup(mv) ==
  Len(mv) < 3 \/ Len(mv) % 2 # 1

\* The check of the command line at the top of the script.
InvalidMoves(mv) ==
  Len(mv) < 3 \/ Len(mv) % 2 # 1 \/ Cardinality({mv[i] : i \in 1..Len(mv)}) # Len(mv)

\* Number(answer), as [nan, twice]: twice the numeric value, or NaN.
Number(ans) ==
  IF ans \in {"", "0"} THEN [nan |-> FALSE, twice |-> 0]
  ELSE IF ans = "0.5" THEN [nan |-> FALSE, twice |-> 1]
  ELSE IF ans = "1.5" THEN [nan |-> FALSE, twice |-> 3]
  ELSE IF \E d \in 1..Len(Digits) : Digits[d] = ans
       THEN [nan |-> FALSE, twice |-> 2 * (CHOOSE d \in 1..Len(Digits) : Digits[d] = ans)]
       ELSE [nan |-> TRUE, twice |-> 0]

\* moveIndex >= 0 && moveIndex < moves.length with moveIndex = Number(answer) - 1;
\* every comparison with NaN is false.
InRange(mv, ans) ==
  LET num == Number(ans)
  IN  ~num.nan /\ num.twice - 2 >= 0 /\ num.twice - 2 < 2 * Len(mv)

\* moves[moveIndex]: undefined unless moveIndex is an integer index.
MoveAt(mv, ans) ==
  LET moveIndex2 == Number(ans).twice - 2
  IN  IF moveIndex2 % 2 = 0 /\ moveIndex2 >= 0 /\ moveIndex2 < 2 * Len(mv)
      THEN mv[(moveIndex2 \div 2) + 1]
      ELSE undefined

\* ---------------------------------------------------------------- state
Init ==
  /\ argv \in ArgvSet
  /\ pc = "start"
  /\ moves = <<>>
  /\ hmacKey = NoKey
  /\ computerMove = undefined
  /\ out = <<>>
  /\ shown = generateHmac(NoKey, undefined)
  /\ disclosed = {}
  /\ answer = NoAnswer

\* The script refuses a command line that is not an odd number >= 3 of unique moves.
Reject ==
  /\ pc = "start"
  /\ InvalidMoves(argv)
  /\ out' = << <<"Invalid moves. Please provide an odd number of unique moves.", "">>,
               <<"Example: node game.js rock paper scissors", "">> >>
  /\ pc' = "done"
  /\ UNCHANGED <<argv, moves, hmacKey, computerMove, shown, disclosed, answer>>

\* new Game(moves); game.showMenu(); getUserMove().
Start ==
  /\ pc = "start"
  /\ ~InvalidMoves(argv)
  /\ \E k \in generateKey, r \in 0..(Len(argv) - 1) :
       /\ moves' = argv
       /\ hmacKey' = k
       /\ computerMove' = argv[r + 1]
       /\ out' = showMenu(argv, k, argv[r + 1])
       /\ shown' = generateHmac(k, argv[r + 1])
  /\ pc' = "prompt"
  /\ UNCHANGED <<argv, disclosed, answer>>

\* Game.play computing the HMAC it prints before it re-draws the move.
play_earlyhmac(userMove, r) ==
  LET cm == moves[r + 1]
      hmac == generateHmac(hmacKey, computerMove)
  IN  /\ computerMove' = cm
      /\ shown' = generateHmac(hmacKey, cm)
      /\ IF ~isMoveValid(moves, userMove)
         THEN /\ out' = << <<"Invalid move. Please try again.", "">> >>
                        \o showMenu(moves, hmacKey, cm)
              /\ UNCHANGED disclosed
         ELSE /\ out' = << <<"HMAC", hmac>>,
                           <<"Your move", userMove>>,
                           <<"Computer move", cm>>,
                           <<"result", determineWinner(moves, userMove, cm)>>,
                           <<"HMAC key", hmacKey>> >>
                        \o showMenu(moves, hmacKey, cm)
              /\ disclosed' = disclosed \cup {[key |-> hmacKey, move |-> cm]}
      /\ UNCHANGED <<argv, pc, moves, hmacKey>>

\* Game.play deciding the result against the move held before the re-draw.
play_stale(userMove, r) ==
  LET cm == moves[r + 1]
      hmac == generateHmac(hmacKey, cm)
  IN  /\ computerMove' = cm
      /\ shown' = generateHmac(hmacKey, cm)
      /\ IF ~isMoveValid(moves, userMove)
         THEN /\ out' = << <<"Invalid move. Please try again.", "">> >>
                        \o showMenu(moves, hmacKey, cm)
              /\ UNCHANGED disclosed
         ELSE /\ out' = << <<"HMAC", hmac>>,
                           <<"Your move", userMove>>,
                           <<"Computer move", cm>>,
                           <<"result", determineWinner(moves, userMove, computerMove)>>,
                           <<"HMAC key", hmacKey>> >>
                        \o showMenu(moves, hmacKey, cm)
              /\ disclosed' = disclosed \cup {[key |-> hmacKey, move |-> cm]}
      /\ UNCHANGED <<argv, pc, moves, hmacKey>>

\* Game.play with r = Math.floor(Math.random() * this.moves.length).
play(userMove, r) ==
  LET cm == moves[r + 1]
      hmac == generateHmac(hmacKey, cm)
  IN  /\ computerMove' = cm
      /\ shown' = generateHmac(hmacKey, cm)
      /\ IF ~isMoveValid(moves, userMove)
         THEN /\ out' = << <<"Invalid move. Please try again.", "">> >>
                        \o showMenu(moves, hmacKey, cm)
              /\ UNCHANGED disclosed
         ELSE /\ out' = << <<"HMAC", hmac>>,
                           <<"Your move", userMove>>,
                           <<"Computer move", cm>>,
                           <<"result", determineWinner(moves, userMove, cm)>>,
                           <<"HMAC key", hmacKey>> >>
                        \o showMenu(moves, hmacKey, cm)
              /\ disclosed' = disclosed \cup {[key |-> hmacKey, move |-> cm]}
      /\ UNCHANGED <<argv, pc, moves, hmacKey>>

\* answer === '0' without rl.close() and return: the prompt comes back.
Exit_reprompt ==
  /\ pc = "prompt"
  /\ answer' = "0"
  /\ out' = <<>>
  /\ UNCHANGED <<argv, pc, moves, hmacKey, computerMove, shown, disclosed>>

\* answer === '0': rl.close().
Exit ==
  /\ pc = "prompt"
  /\ answer' = "0"
  /\ out' = <<>>
  /\ pc' = "closed"
  /\ UNCHANGED <<argv, moves, hmacKey, computerMove, shown, disclosed>>

\* answer === '?' with a printHelp that draws a new computer move.
Help_redraw ==
  /\ pc = "prompt"
  /\ answer' = "?"
  /\ out' = printHelpLines(moves)
  /\ \E r \in 0..(Len(moves) - 1) : computerMove' = moves[r + 1]
  /\ UNCHANGED <<argv, pc, moves, hmacKey, shown, disclosed>>

\* answer === '?': game.printHelp(), then the next prompt.
Help ==
  /\ pc = "prompt"
  /\ answer' = "?"
  /\ out' = printHelpLines(moves)
  /\ UNCHANGED <<argv, pc, moves, hmacKey, computerMove, shown, disclosed>>

\* A menu number in range: game.play(moves[moveIndex]), then the next prompt.
Submit ==
  /\ pc = "prompt"
  /\ \E a \in Answers \ {"0", "?"}, r \in 0..(Len(moves) - 1) :
       /\ InRange(argv, a)
       /\ answer' = a
       /\ play(MoveAt(argv, a), r)

\* Any other answer: the menu again, then the next prompt.
BadNumber ==
  /\ pc = "prompt"
  /\ \E a \in Answers \ {"0", "?"} :
       /\ ~InRange(argv, a)
       /\ answer' = a
       /\ out' = << <<"Invalid move. Please try again.", "">> >>
                 \o showMenu(moves, hmacKey, computerMove)
       /\ shown' = generateHmac(hmacKey, computerMove)
  /\ UNCHANGED <<argv, pc, moves, hmacKey, computerMove, disclosed>>

Next == Reject \/ Start \/ Exit \/ Help \/ Submit \/ BadNumber

Spec == Init /\ [][Next]_vars

TypeOK ==
  /\ pc \in {"start", "done", "prompt", "closed"}
  /\ hmacKey \in Keys \cup {NoKey}
  /\ pc \in {"prompt", "closed"} => /\ moves = argv
                                    /\ includes(moves, computerMove)
                                    /\ hmacKey \in Keys

\* ------------------------------------------------- reading the console
InvalidLine == "Invalid move. Please try again."

HasLine(o, tag) == \E i \in 1..Len(o) : o[i][1] = tag

\* The value of the first line of o that carries this tag.
LineOf(o, tag) ==
  o[CHOOSE i \in 1..Len(o) : o[i][1] = tag /\ \A j \in 1..(i - 1) : o[j][1] # tag][2]

\* The last callback resolved a round: it printed the computer's move and the key.
Resolved(o) == HasLine(o, "Computer move")

\* The last callback rejected the answer.
Rejected(o) == Len(o) > 0 /\ o[1][1] = InvalidLine

\* A round is Committed: a commitment is on display and the player is asked for a move.
Committed == pc = "prompt"

IndexSet(mv) == 0..(Len(mv) - 1)

\* C1: round fairness replay. Whenever an answer resolves a round, the
\* commitment that was on display before the answer equals
\* commit(disclosed key, disclosed computer move).
C1_FairnessReplay ==
  [][(Committed /\ Resolved(out'))
       => generateHmac(LineOf(out', "HMAC key"), LineOf(out', "Computer move")) = shown]_vars

\* C2: the computer's move is drawn once per round. While a commitment is on
\* display, an answer that does not resolve the round leaves the computer's
\* move unchanged, and an answer that resolves it reveals the move the Game
\* held when the commitment was displayed.
C2_MoveDrawnOnce ==
  [][Committed
       => IF Resolved(out')
          THEN LineOf(out', "Computer move") = computerMove
          ELSE computerMove' = computerMove]_vars

\* C3: a fresh key per round. After a resolution the next round's commitment is
\* computed under a key that is not the key of any earlier round.
C3_FreshKeyPerRound ==
  [][(Committed /\ Resolved(out'))
       => hmacKey' \notin {d.key : d \in disclosed'}]_vars

\* C4: while a round is Committed, neither the key of the commitment on display
\* nor the move it commits to has been output to the player.
C4_NothingExposedWhileCommitted ==
  Committed
    => \A d \in disclosed :
         d.key # hmacKey /\ generateHmac(d.key, d.move) # shown

\* C5: an invalid submission is rejected. The round stays Committed, the
\* computer's move and the key are unchanged and the commitment shown
\* afterwards is the one shown before.
C5_InvalidSubmissionKeepsCommitment ==
  [][(Committed /\ Rejected(out'))
       => /\ pc' = "prompt"
          /\ computerMove' = computerMove
          /\ hmacKey' = hmacKey
          /\ shown' = shown]_vars

\* C6: direction of the circular half-dominance. For moves at indices i # j,
\* determineWinner(moves[i], moves[j]) is 'You win!' iff ((j - i - 1) mod n) < half.
C6_WinsOverFollowingHalf ==
  Committed
    => \A i, j \in IndexSet(moves) :
         i # j =>
           ((determineWinner(moves, moves[i + 1], moves[j + 1]) = "You win!")
              <=> ((j - i - 1) % Len(moves) < (Len(moves) - 1) \div 2))

\* C7: antisymmetry. For a # b, one of determineWinner(a, b) and
\* determineWinner(b, a) is 'You win!' and the other is 'Computer wins!'.
C7_Antisymmetry ==
  Committed
    => \A i, j \in IndexSet(moves) :
         i # j =>
           {determineWinner(moves, moves[i + 1], moves[j + 1]),
            determineWinner(moves, moves[j + 1], moves[i + 1])}
             = {"You win!", "Computer wins!"}

C7_Witness ==
  /\ Committed /\ Resolved(out) /\ Len(moves) = 5
  /\ LineOf(out, "result") = "Computer wins!"
  /\ indexOf(moves, LineOf(out, "Computer move")) < indexOf(moves, LineOf(out, "Your move"))

\* C8: balance. Every move wins against exactly (n - 1) / 2 of the other moves
\* and loses against exactly (n - 1) / 2 of them.
C8_Balance ==
  Committed
    => \A i \in IndexSet(moves) :
         LET others == IndexSet(moves) \ {i}
             res(j) == determineWinner(moves, moves[i + 1], moves[j + 1])
         IN  /\ 2 * Cardinality({j \in others : res(j) = "You win!"}) = Len(moves) - 1
             /\ 2 * Cardinality({j \in others : res(j) = "Computer wins!"}) = Len(moves) - 1

C8_Witness ==
  /\ Committed /\ Resolved(out) /\ Len(moves) = 5
  /\ indexOf(moves, LineOf(out, "Your move")) = 4
  /\ LineOf(out, "result") = "You win!"
  /\ indexOf(moves, LineOf(out, "Computer move")) = 2

\* C9: the result printed by a resolution is the comparison of the printed
\* player move with the computer move printed in the same resolution.
C9_ResultAgainstRevealedMove ==
  Resolved(out)
    => LineOf(out, "result")
         = determineWinner(moves, LineOf(out, "Your move"), LineOf(out, "Computer move"))

C9_Witness ==
  /\ Resolved(out)
  /\ Cardinality(disclosed) >= 2
  /\ LineOf(out, "result") = "Computer wins!"
  /\ Len(moves) = 3

\* determineWinner's answer seen from its first argument, in the help table's words.
AsTableEntry(result) ==
  IF result = "Draw" THEN "Draw"
  ELSE IF result = "You win!" THEN "Win" ELSE "Lose"

\* C10: help table consistency. For every ordered pair (a, b) of a valid
\* MoveSet, determineResult(a, b) agrees with determineWinner(a, b), and so
\* does every cell of a printed help table.
C10_HelpTableAgrees ==
  /\ ~InvalidMoves(argv)
       => \A i, j \in IndexSet(argv) :
            determineResult(argv, argv[i + 1], argv[j + 1])
              = AsTableEntry(determineWinner(argv, argv[i + 1], argv[j + 1]))
  /\ HasLine(out, "Help table:")
       => \A i, j \in 1..Len(moves) :
            out[7 + i][2][1 + j] = AsTableEntry(determineWinner(moves, moves[i], moves[j]))

C10_Witness ==
  /\ HasLine(out, "Help table:")
  /\ Len(moves) = 5
  /\ out[Len(out)][2] = <<"scissors", "Lose", "Lose", "Win", "Win", "Draw">>

\* The answers that are a menu number of this move list.
MenuNumbers(mv) == {Digits[i] : i \in 1..Min(Len(mv), Len(Digits))}

\* C11: configuration precondition. For a move list of even length, of length
\* below 3 or with a duplicate, the script refuses to start: no Game is
\* constructed, no key and no computer move is drawn, no commitment is shown,
\* and the only output is the refusal.
C11_InvalidMoveListRefused ==
  (\/ Len(argv) < 3
   \/ Len(argv) % 2 = 0
   \/ \E i, j \in 1..Len(argv) : i # j /\ argv[i] = argv[j])
    => /\ pc \in {"start", "done"}
       /\ moves = <<>>
       /\ hmacKey = NoKey
       /\ computerMove = undefined
       /\ shown = generateHmac(NoKey, undefined)
       /\ ~HasLine(out, "HMAC")
       /\ pc = "done" => HasLine(out, "Invalid moves. Please provide an odd number of unique moves.")

C11_Witness ==
  /\ pc = "done"
  /\ Len(argv) = 3
  /\ argv[3] = argv[1]
  /\ Len(out) = 2

Classic == <<"rock", "paper", "scissors">>

FiveMoves == <<"rock", "spock", "paper", "lizard", "scissors">>

C14_DrawIffEqual ==
  /\ Committed
       => \A i, j \in IndexSet(moves) :
            (determineWinner(moves, moves[i + 1], moves[j + 1]) = "Draw") <=> (i = j)
  /\ Resolved(out)
       => ((LineOf(out, "result") = "Draw")
             <=> (LineOf(out, "Your move") = LineOf(out, "Computer move")))

C14_Witness ==
  /\ Resolved(out)
  /\ Len(moves) = 7
  /\ LineOf(out, "result") = "Draw"
  /\ LineOf(out, "Your move") = moves[7]

\* C15: help is side-effect-free. An answer '?' prints the help table and
\* leaves the move list, the key, the computer's move and the commitment on
\* display as they were.
C15_HelpChangesNothing ==
  [][(Committed /\ answer' = "?")
       => /\ HasLine(out', "Help table:")
          /\ UNCHANGED <<moves, hmacKey, computerMove, shown, disclosed, pc>>]_vars

C15_Witness ==
  /\ answer = "?"
  /\ HasLine(out, "Help table:")
  /\ Cardinality(disclosed) >= 1
  /\ shown = generateHmac(hmacKey, computerMove)

\* C16: the only way out is '0'. After any other answer the player is
\* prompted again with a commitment of the current key and move on display;
\* after '0' the interface is closed and stays closed.
C16_OnlyExitEnds ==
  [][/\ Committed
          => IF answer' = "0"
             THEN pc' = "closed"
             ELSE /\ pc' = "prompt"
                  /\ hmacKey' \in Keys
                  /\ shown' = generateHmac(hmacKey', computerMove')
     /\ pc' = "closed" => answer' = "0"
     /\ pc = "closed" => pc' = "closed"]_vars

C16_Witness ==
  /\ pc = "closed"
  /\ answer = "0"
  /\ Cardinality(disclosed) >= 2

\* C18: the key and the computer's move are printed only for a menu number.
\* After any answer that is not one of "1".."n" the output has no
\* 'Computer move' line and no 'HMAC key' line.
C18_RevealOnlyForMenuNumber ==
  answer \notin MenuNumbers(moves)
    => ~HasLine(out, "Computer move") /\ ~HasLine(out, "HMAC key")

C18_Witness ==
  /\ answer = "1.5"
  /\ Rejected(out)
  /\ Cardinality(disclosed) >= 1
  /\ shown # generateHmac(hmacKey, moves[1])

\* C19: reveal self-consistency. The HMAC line a resolution prints is
\* commit(key printed in that resolution, computer move printed in it).
C19_RevealSelfConsistent ==
  Resolved(out)
    => /\ out[1][1] = "HMAC"
       /\ out[1][2] = generateHmac(LineOf(out, "HMAC key"), LineOf(out, "Computer move"))

C19_Witness ==
  /\ Resolved(out)
  /\ Cardinality(disclosed) >= 3
  /\ Len(moves) = 5
  /\ LineOf(out, "result") = "You win!"

\* The window of half positions after index i, in circular order.
Window(n, i) == {(i + k) % n : k \in 1..((n - 1) \div 2)}

\* C20: wrap-around exactness. For every first-argument index i, the indices
\* j # i for which determineWinner takes its first non-Draw branch are exactly
\* (i+1) mod n, ..., (i+half) mod n; the two tests of the condition never
\* both select a position and never select i.
C20_WindowExact ==
  Committed
    => LET n == Len(moves)
           half == (n - 1) \div 2
       IN  \A i \in IndexSet(moves) :
             /\ {j \in IndexSet(moves) \ {i} :
                   determineWinner(moves, moves[i + 1], moves[j + 1]) = "Computer wins!"}
                  = Window(n, i)
             /\ {j \in IndexSet(moves) :
                   NonWrapTest(n, half, i, j) \/ WrapTest(n, half, i, j)}
                  = Window(n, i)
             /\ \A j \in IndexSet(moves) :
                  ~(NonWrapTest(n, half, i, j) /\ WrapTest(n, half, i, j))
             /\ i \notin Window(n, i)

C20_Witness ==
  /\ Committed
  /\ Resolved(out)
  /\ Len(moves) = 7
  /\ indexOf(moves, LineOf(out, "Your move")) = 5
  /\ indexOf(moves, LineOf(out, "Computer move")) = 1
  /\ LineOf(out, "result") = "Computer wins!"
====
